---- MODULE Spec2Model ----
(***************************************************************************)
(* Model of the acquisition-and-relay gateway (Server.py) and of the       *)
(* persistence wrapper it calls (utils_db.py).                             *)
(*                                                                         *)
(* Server.py's __main__ block first calls asyncio.run(main()), which runs  *)
(* the video relay server, and only then enters the telemetry poll loop.   *)
(* ProcSpec models the process exactly as __main__ is written.  PollerSpec *)
(* models the poll loop of lines 129-141 from its entry, with read_data    *)
(* and Database.update_robots, so that the behaviour of a poll cycle can   *)
(* be examined on its own.                                                 *)
(***************************************************************************)
EXTENDS Integers, Sequences, FiniteSets, TLC

(* ---------------------------- bounds ----------------------------------- *)
\* config['cntr']['slave_count']
SlaveCount == 3
\* number of poll cycles explored
MaxCycles == 2
\* device names reported in register 0 range over 1..MaxName
MaxName == 2
\* the sampled value of a register word ranges over 0..MaxWord
MaxWord == 2
\* viewer connections explored
MaxSessions == 2
\* frames sent to one viewer
MaxFrames == 2
\* media profiles a camera reports: 0..MaxProfiles
MaxProfiles == 9
\* seconds the dashboard's clock runs: 0..MaxClock
MaxClock == 6
\* cameras the store can hold: 1..MaxCameras
MaxCameras == 2
\* writes of the poller to the robots table the dashboard can see
MaxRevision == 1
\* calls of update_session_data in one dashboard session
MaxCalls == 2

(* ------------------------- program constants --------------------------- *)
\* REGISTERS: field name -> word offset (0-based, as in the source)
REGISTERS ==
    [name |-> 0, is_active |-> 1, mode |-> 2,
     cycles_current |-> 3, cycles_total |-> 4, oee |-> 5]

Fields == DOMAIN REGISTERS

\* len(REGISTERS)
RegisterCount == Cardinality(Fields)

\* sleep(5) after a cycle that raised nothing
NormalPeriod == 5
\* sleep(10) in the handler of the outer except
BackoffPeriod == 10

\* first value of range(1, slave_count + 1)
FirstSlave == 1

\* last value of range(1, slave_count + 1)
LastSlave_Exclusive == SlaveCount - 1
LastSlave == SlaveCount

(* ----------------------------- fieldbus -------------------------------- *)
\* the request of one client.read_holding_registers call
ReadRequest(k) == [slave |-> k, address |-> 0, count |-> RegisterCount]

\* a full block of words sent by device `n` with sample value v; every
\* offset carries a different word
Block(n, v) == <<n, v, 10 + v, 20 + v, 30 + v, 40 + v>>

FullBlocks == { Block(n, v) : n \in 1..MaxName, v \in 0..MaxWord }

\* responses whose register list is shorter than the request asked for
ShortBlocks == { SubSeq(Block(1, 0), 1, len) : len \in 0..(RegisterCount - 1) }

\* what one read_holding_registers call can give back: a response with a
\* register list, a response with isError() true, or an exception
Responses ==
    { [kind |-> "resp", registers |-> b] : b \in FullBlocks \cup ShortBlocks }
    \cup { [kind |-> "error", registers |-> <<>>],
           [kind |-> "raise", registers |-> <<>>] }

\* registers[REGISTERS[f]] raises IndexError when the offset is past the end
CanIndex(registers, f) == REGISTERS[f] + 1 <= Len(registers)

\* the dict literal of lines 104-111 is built without an exception
CanDecode(registers) == \A f \in Fields : CanIndex(registers, f)

\* slave_data of lines 104-111 (Python lists are 0-based, sequences 1-based)
Decode_Truthy(registers) ==
    [f \in Fields |->
        IF f = "is_active"
        THEN (IF registers[REGISTERS[f] + 1] # 0 THEN 1 ELSE 0)
        ELSE registers[REGISTERS[f] + 1]]
Decode(registers) == [f \in Fields |-> registers[REGISTERS[f] + 1]]

\* writing a record back field by field: word i takes the field mapped to
\* offset i - 1, a word no field is mapped to stays 0
Encode(record) ==
    [i \in 1..RegisterCount |->
        IF \E f \in Fields : REGISTERS[f] = i - 1
        THEN record[CHOOSE f \in Fields : REGISTERS[f] = i - 1]
        ELSE 0]

EmptyBatch == [k \in {} |-> 0]

\* one iteration of the for loop of read_data applied to all_data
StoreRecord_AbortOnError(all, k, resp) ==
    IF resp.kind = "resp" /\ CanDecode(resp.registers)
    THEN [j \in (DOMAIN all) \cup {k} |->
             IF j = k THEN Decode(resp.registers) ELSE all[j]]
    ELSE EmptyBatch
StoreRecord(all, k, resp) ==
    IF resp.kind = "raise" THEN all
    ELSE IF resp.kind = "error" THEN all
    ELSE IF ~CanDecode(resp.registers) THEN all
    ELSE [j \in (DOMAIN all) \cup {k} |->
             IF j = k THEN Decode(resp.registers) ELSE all[j]]

(* ---------------------------- persistence ------------------------------ *)
\* the parameter dict of cursor.execute (lines 149-156); `by` is a history
\* tag naming the poll cycle whose batch wrote the row
Row_ActiveIfOne(rec, c) ==
    [name |-> rec.name, is_active |-> (rec.is_active = 1), mode |-> rec.mode,
     cycles_current |-> rec.cycles_current, cycles_total |-> rec.cycles_total,
     oee |-> rec.oee, by |-> c]
Row(rec, c) ==
    [name |-> rec.name, is_active |-> (rec.is_active # 0), mode |-> rec.mode,
     cycles_current |-> rec.cycles_current, cycles_total |-> rec.cycles_total,
     oee |-> rec.oee, by |-> c]

\* INSERT ... ON CONFLICT (name) DO UPDATE SET ...
Upsert_PlainInsert(rows, row) == rows \cup {row}
Upsert(rows, row) == { r \in rows : r.name # row.name } \cup {row}

\* what other connections see after a statement of an open transaction:
\* psycopg2 connections do not autocommit, the statement stays in the
\* transaction until conn.commit() of line 157
AfterStatement_Autocommit(store, pending) == pending
AfterStatement(store, pending) == store

(* ---------------------------- video relay ------------------------------ *)
Sessions == 1..MaxSessions

\* value of loopOwner while the event loop runs no task
NoTask == 0

\* the finally block of stream_camera: cap.release() on the session's own
\* capture object
FinallyRelease_ReleaseAll(caps, s) == [t \in DOMAIN caps |-> FALSE]
FinallyRelease_Skip(caps, s) == caps
FinallyRelease(caps, s) == [caps EXCEPT ![s] = FALSE]

(* ------------------------- endpoint resolution ------------------------- *)
\* index of profiles[8] in get_rtsp_url (0-based)
ProfileIndex == 8

\* what the camera does during one get_rtsp_url call: whether GetProfiles
\* answers, how many profiles it lists, whether GetStreamUri answers
CameraAnswers ==
    [profilesOk : BOOLEAN, profiles : 0..MaxProfiles, uriOk : BOOLEAN]

\* profiles[8] exists: a Python list of n items has the indices 0..n-1
ProfileExists(n) == ProfileIndex <= n - 1

\* get_rtsp_url leaves by an exception: GetProfiles raises, profiles[8]
\* raises IndexError, or GetStreamUri raises; nothing in it catches
GetRtspUrlRaises_Swallowed(cam) == FALSE
GetRtspUrlRaises(cam) ==
    \/ ~cam.profilesOk
    \/ ~ProfileExists(cam.profiles)
    \/ ~cam.uriOk

\* stream_camera takes the endpoint from a resolution of an earlier
\* session: it never does, rtsp_url is a local of the handler (line 63)
CachedEndpoint_Shared(cam) == \E t \in DOMAIN cam : cam[t] = "ok"
CachedEndpoint(cam) == FALSE

\* the outcome of a resolution, as the specification names the failures
Resolution(cam) ==
    IF ~cam.profilesOk THEN "profiles_failed"
    ELSE IF cam.profiles < 9 THEN "no_profile"
    ELSE IF ~cam.uriOk THEN "uri_failed"
    ELSE "ok"

(* ------------------------------- URIs ----------------------------------- *)
\* A URI text is a sequence of tokens: a delimiter character of RFC 3986, or
\* an atom, a run of characters that holds no delimiter.  No two atoms are
\* adjacent, so splitting at delimiters acts on tokens as urlparse acts on
\* characters.
Delimiters == {":", "/", "?", "#", "@", "[", "]"}

\* atoms that start with a letter and hold scheme characters only
AlphaAtoms == {"rtsp", "RTSP", "cam", "CAM", "admin", "old", "pw", "p", "w",
               "live", "ch", "f", "None"}

\* atoms of decimal digits, and str.isdigit / int / str on them
DigitAtoms == {"554", "0", "1"}

IntOf(a) == CASE a = "554" -> 554 [] a = "0" -> 0 [] OTHER -> 1

StrOf(n) == CASE n = 554 -> "554" [] n = 0 -> "0" [] OTHER -> "1"

\* str.lower on an atom
LowerAtom(a) == CASE a = "RTSP" -> "rtsp" [] a = "CAM" -> "cam" [] OTHER -> a

Lower(text) == [i \in 1..Len(text) |-> LowerAtom(text[i])]

\* str.find for a set of characters: the first position, 0 when absent
FindAny(text, toks) ==
    IF \E i \in 1..Len(text) : text[i] \in toks
    THEN CHOOSE i \in 1..Len(text) :
             text[i] \in toks /\ \A j \in 1..(i - 1) : text[j] \notin toks
    ELSE 0

\* str.rfind: the last position, 0 when absent
RFind(text, tok) ==
    IF \E i \in 1..Len(text) : text[i] = tok
    THEN CHOOSE i \in 1..Len(text) :
             text[i] = tok /\ \A j \in (i + 1)..Len(text) : text[j] # tok
    ELSE 0

Before(text, i) == SubSeq(text, 1, i - 1)

From(text, i) == SubSeq(text, i, Len(text))

\* urllib.parse.urlparse: the scheme is lowercased, the authority runs from
\* "//" to the first "/", "?" or "#", then the fragment and the query are
\* split off; an authority with one bracket only raises ValueError
urlparse(url) ==
    LET c        == FindAny(url, {":"})
        hasSch   == c = 2 /\ url[1] \in AlphaAtoms
        rest     == IF hasSch THEN From(url, 3) ELSE url
        hasNet   == Len(rest) >= 2 /\ rest[1] = "/" /\ rest[2] = "/"
        tail     == IF hasNet THEN From(rest, 3) ELSE rest
        d        == FindAny(tail, {"/", "?", "#"})
        netloc   == IF ~hasNet THEN << >>
                    ELSE IF d = 0 THEN tail ELSE Before(tail, d)
        rest2    == IF ~hasNet THEN rest
                    ELSE IF d = 0 THEN << >> ELSE From(tail, d)
        h        == FindAny(rest2, {"#"})
        fragment == IF h = 0 THEN << >> ELSE From(rest2, h + 1)
        rest3    == IF h = 0 THEN rest2 ELSE Before(rest2, h)
        q        == FindAny(rest3, {"?"})
        query    == IF q = 0 THEN << >> ELSE From(rest3, q + 1)
        path     == IF q = 0 THEN rest3 ELSE Before(rest3, q)
    IN  [raised   |-> (FindAny(netloc, {"["}) = 0) # (FindAny(netloc, {"]"}) = 0),
         scheme   |-> IF hasSch THEN <<LowerAtom(url[1])>> ELSE << >>,
         netloc   |-> netloc,
         path     |-> path,
         query    |-> query,
         fragment |-> fragment]

\* _hostinfo of urllib.parse: what follows the last "@" is split at the
\* brackets if there are any, else at the first ":"
HostInfo(netloc) ==
    LET hostinfo == From(netloc, RFind(netloc, "@") + 1)
        b        == FindAny(hostinfo, {"["})
        inside   == From(hostinfo, b + 1)
        e        == FindAny(inside, {"]"})
        after    == IF e = 0 THEN << >> ELSE From(inside, e + 1)
        c        == FindAny(after, {":"})
        k        == FindAny(hostinfo, {":"})
    IN  IF b > 0
        THEN [host |-> IF e = 0 THEN inside ELSE Before(inside, e),
              port |-> IF c = 0 THEN << >> ELSE From(after, c + 1)]
        ELSE [host |-> IF k = 0 THEN hostinfo ELSE Before(hostinfo, k),
              port |-> IF k = 0 THEN << >> ELSE From(hostinfo, k + 1)]

\* parsed.hostname: lowercased, None (here the empty text) when empty
Hostname(netloc) == Lower(HostInfo(netloc).host)

\* parsed.port raises ValueError unless the port text is empty or decimal
PortRaises(netloc) ==
    LET t == HostInfo(netloc).port
    IN  t # << >> /\ ~(Len(t) = 1 /\ t[1] \in DigitAtoms)

\* parsed.port as the condition of line 49: None and 0 are both false
PortIsTruthy(netloc) ==
    LET t == HostInfo(netloc).port
    IN  t # << >> /\ IntOf(t[1]) # 0

\* ParseResult.geturl: urlunparse leaves out an empty query and fragment
geturl(r) ==
    LET path == IF r.path # << >> /\ r.path[1] # "/"
                THEN <<"/">> \o r.path ELSE r.path
    IN  r.scheme \o <<":", "/", "/">> \o r.netloc \o path
            \o (IF r.query = << >> THEN << >> ELSE <<"?">> \o r.query)
            \o (IF r.fragment = << >> THEN << >> ELSE <<"#">> \o r.fragment)

\* lines 46-59: the result, or raised when urlparse or parsed.port raises
add_auth_to_url(url, user, password) ==
    LET parsed == urlparse(url)
        host   == Hostname(parsed.netloc)
        netloc == user \o <<":">> \o password \o <<"@">>
                      \o (IF host = << >> THEN <<"None">> ELSE host)
    IN  IF parsed.raised \/ PortRaises(parsed.netloc)
        THEN [raised |-> TRUE, url |-> << >>]
        ELSE [raised |-> FALSE,
              url |-> geturl([parsed EXCEPT !.netloc =
                         IF PortIsTruthy(parsed.netloc)
                         THEN netloc \o <<":",
                                  StrOf(IntOf(HostInfo(parsed.netloc).port[1]))>>
                         ELSE netloc])]

\* the URIs a device answers GetStreamUri with, by component
DeviceUris ==
    [scheme   : {<<"rtsp">>, <<"RTSP">>},
     userinfo : {<< >>, <<"admin", ":", "old", "@">>},
     host     : {<<"cam">>, <<"CAM">>, <<"[", ":", ":", "1", "]">>},
     port     : {<< >>, <<"554">>, <<"0">>},
     path     : {<< >>, <<"/", "live">>},
     query    : {<< >>, <<"ch">>},
     fragment : {<< >>, <<"f">>}]

\* the text of a device URI
UriText(u) ==
    u.scheme \o <<":", "/", "/">> \o u.userinfo \o u.host
        \o (IF u.port = << >> THEN << >> ELSE <<":">> \o u.port)
        \o u.path
        \o (IF u.query = << >> THEN << >> ELSE <<"?">> \o u.query)
        \o (IF u.fragment = << >> THEN << >> ELSE <<"#">> \o u.fragment)

\* config['cam']['username'] and the passwords config['cam']['password']
\* may hold
Username == <<"admin">>

Passwords == {<<"pw">>, <<"p", "@", "w">>, <<"p", "/", "w">>,
              <<"p", "#", "w">>}

(* ----------------------------- dashboard -------------------------------- *)
\* Main.py lines 54, 60, 66: @cache_with_timeout(5)
CacheTimeout == 5

Cameras == 1..MaxCameras

\* the functions cache_with_timeout wraps
Fetchers == {"fetch_robots", "fetch_cameras", "fetch_rooms"}

\* Main.py lines 41-42: the wrapped function is called when the session
\* holds no cached value or the cached one is older than the timeout
CacheMiss(entry, t) == ~entry.present \/ t - entry.time > CacheTimeout

\* Main.py lines 124-128: the except branch of update_session_data
OnFetchError_DropsData(sess) ==
    [sess EXCEPT !.data_valid = FALSE,
                 !.robots = 0 - 1,
                 !.filtered_robots = 0 - 1,
                 !.log_messages = Append(@, "error")]
OnFetchError(sess) ==
    [sess EXCEPT !.data_valid = FALSE,
                 !.log_messages = Append(@, "error")]

\* Main.py lines 109-121: st.session_state.update and the log message
OnFetched(sess, loc) ==
    [sess EXCEPT !.last_update = loc.current_time,
                 !.rooms = loc.rooms,
                 !.data_valid = TRUE,
                 !.robots = loc.robots,
                 !.cameras = loc.cameras,
                 !.filtered_robots = loc.robots,
                 !.log_messages = Append(@, "updated")]

(* ------------------------------ secrets -------------------------------- *)
\* the secrets a value read from config.ini carries
ConfigSecrets(section, key) ==
    IF section = "cam" /\ key = "password" THEN {"password"} ELSE {}

\* read_data and the poll loop read only section cntr (lines 91, 132); what
\* the fieldbus client returns or raises derives from these arguments and
\* from the devices
FieldbusSecrets ==
    ConfigSecrets("cntr", "host") \cup ConfigSecrets("cntr", "port")
        \cup ConfigSecrets("cntr", "slave_count")

\* utils_db.py reads only section db (lines 39-43)
DatabaseSecrets ==
    ConfigSecrets("db", "username") \cup ConfigSecrets("db", "password")
        \cup ConfigSecrets("db", "host") \cup ConfigSecrets("db", "port")
        \cup ConfigSecrets("db", "database_name")

\* the logger calls of read_data and of the poll loop format slave ids,
\* register words and the texts of fieldbus and database exceptions; the
\* rows update_robots stores hold register words
PollerEmits == FieldbusSecrets \cup DatabaseSecrets

\* the arguments of get_rtsp_url (lines 63-64)
ResolverSecrets ==
    ConfigSecrets("cam", "host") \cup ConfigSecrets("cam", "port")
        \cup ConfigSecrets("cam", "username")
        \cup ConfigSecrets("cam", "password")

\* the URI add_auth_to_url returns (line 65): it embeds the password
AuthUrlSecrets ==
    {"auth_url"} \cup ConfigSecrets("cam", "username")
        \cup ConfigSecrets("cam", "password")

\* stream_camera has no logger call, no except clause and no call of the
\* persistence wrapper: of the values it holds it emits nothing
SessionEmits_LogsValues(held) == held
SessionEmits(held) == {}

VARIABLES
    ppc,          \* position of the poll loop
    cycle,        \* number of poll cycles started
    connected,    \* outcome of the fieldbus connection of this cycle
    slave_id,     \* loop variable of read_data
    all_data,     \* the dict read_data builds
    data,         \* [isNone, batch]: what read_data returned to the loop
    readLog,      \* requests issued in this cycle, in order
    outcome,      \* slot -> kind of answer its read got in this cycle
    todo,         \* slots of the batch update_robots has not executed yet
    sinkCalls,    \* calls of ut.update_robots in this cycle
    cursors,      \* cursors opened in this cycle
    statements,   \* cursor.execute calls that succeeded in this cycle
    commits,      \* conn.commit() calls in this cycle
    sleepFor,     \* argument of the sleep the loop is in
    dbTxn,        \* state of the shared connection's transaction
    dbPending,    \* rows as seen inside the connection's transaction
    dbStore,      \* committed rows of table robots
    committed,    \* cycles whose batch was committed
    lastRecord,   \* name -> record most recently committed under that name
    partial,      \* cycles whose batch had statements executed, uncommitted
    mainpc,       \* position of the __main__ block
    loopOwner,    \* the task running on the event loop's thread, or NoTask
    spc,          \* session -> position of its stream_camera task
    capOpen,      \* session -> its cv2.VideoCapture exists and is unreleased
    connOpen,     \* session -> the server side of its websocket is open
    viewerGone,   \* session -> the viewer has dropped the connection
    frames,       \* session -> frames sent to the viewer
    endReason,    \* session -> why its handler ended
    endSnap,      \* session -> frames and sessions present when it ended
    resolutions,  \* session -> get_rtsp_url calls made
    camera,       \* session -> outcome of its endpoint resolution
    calls,        \* session -> library calls its handler made, in order
    opens,        \* session -> VideoCapture objects constructed
    releases,     \* session -> cap.release() calls
    cpc,          \* what has been applied to the block: decode, encode, ...
    blk,          \* a block of register words
    slave_data,   \* the dict decoded from blk
    back,         \* the words written back from slave_data
    crow,         \* the parameters update_robots binds for slave_data
    logged,       \* secrets that reached a log event or a stored record
    upc,          \* the rewrite: "idle", "input", "once" or "twice"
    device,       \* the URI of the device, by component
    config_password, \* config['cam']['password']
    once,         \* add_auth_to_url of the device's URI
    twice,        \* add_auth_to_url of that result
    dpc,          \* the dashboard script: "idle" or its place in update_session_data
    now,          \* time.time(), in seconds
    storeRobots,  \* the robots table: the number of the poller's last write
    storeCameras, \* the cameras table: the ids it holds
    cache,        \* st.session_state[<fetcher>_cache] and [<fetcher>_cache_time]
    session,      \* the other keys of st.session_state
    usd,          \* the local variables of update_session_data
    seen,         \* history: what the tables held since the call started
    before,       \* history: the session when the call started
    changed,      \* history: the camera change that led to the call
    usdCalls      \* history: calls of update_session_data so far

pollerVars ==
    <<ppc, cycle, connected, slave_id, all_data, data, readLog, outcome, todo,
      sinkCalls, cursors, statements, commits, sleepFor, dbTxn, dbPending,
      dbStore, committed, lastRecord, partial>>

serverVars ==
    <<mainpc, loopOwner, spc, capOpen, connOpen, viewerGone, frames, endReason,
      endSnap, resolutions, camera, calls, opens, releases>>

codecVars == <<cpc, blk, slave_data, back, crow>>

urlVars == <<upc, device, config_password, once, twice>>

dashVars == <<dpc, now, storeRobots, storeCameras, cache, session, usd, seen,
              before, changed, usdCalls>>

vars == <<pollerVars, serverVars, codecVars, logged, urlVars, dashVars>>

NoData == [isNone |-> TRUE, batch |-> EmptyBatch]

\* kind of answer, as the specification classifies it
Kind(resp) ==
    IF resp.kind = "resp"
    THEN (IF Len(resp.registers) < 6 THEN "short" ELSE "ok")
    ELSE resp.kind

NoSnap == [frames |-> [t \in Sessions |-> 0], present |-> {}]

\* a record and a block holding nothing yet
NoRecord == [f \in Fields |-> 0]

\* no rewrite is under way
NoResult == [raised |-> FALSE, url |-> << >>]

NoDevice == [k \in {"scheme", "userinfo", "host", "port", "path", "query",
                    "fragment"} |-> << >>]

UrlIdle ==
    /\ upc = "idle"
    /\ device = NoDevice
    /\ config_password = << >>
    /\ once = NoResult
    /\ twice = NoResult

\* Main.py lines 89-97: the session as init_session_state creates it; -1
\* stands for None and for the empty lists, "absent" for a missing key
NoValue == -1

NewSession ==
    [last_update |-> NoValue, data_valid |-> FALSE, robots |-> NoValue,
     cameras |-> {}, rooms |-> "absent", filtered_robots |-> NoValue,
     log_messages |-> << >>]

NoCache ==
    [fetch_robots  |-> [present |-> FALSE, time |-> 0, value |-> NoValue],
     fetch_cameras |-> [present |-> FALSE, time |-> 0, value |-> {}],
     fetch_rooms   |-> [present |-> FALSE, time |-> 0, value |-> "absent"]]

NoLocals == [current_time |-> 0, robots |-> NoValue, cameras |-> {},
             rooms |-> "absent"]

NoChange == [kind |-> "none", camera |-> 0]

\* the dashboard has run init_session_state up to line 97, the caches are
\* empty and the cameras table holds camera 1
DashStart ==
    /\ dpc = "idle"
    /\ now = 0
    /\ storeRobots = 0
    /\ storeCameras = {1}
    /\ cache = NoCache
    /\ session = NewSession
    /\ usd = NoLocals
    /\ seen = [robots |-> {}, cameras |-> {}]
    /\ before = NewSession
    /\ changed = NoChange
    /\ usdCalls = 0

CodecIdle ==
    /\ logged = {}
    /\ UrlIdle
    /\ DashStart
    /\ cpc = "idle"
    /\ blk = <<>>
    /\ slave_data = NoRecord
    /\ back = <<>>
    /\ crow = Row(NoRecord, 0)

\* no viewer has connected
ServerInit ==
    /\ loopOwner = NoTask
    /\ spc = [s \in Sessions |-> "absent"]
    /\ capOpen = [s \in Sessions |-> FALSE]
    /\ connOpen = [s \in Sessions |-> FALSE]
    /\ viewerGone = [s \in Sessions |-> FALSE]
    /\ frames = [s \in Sessions |-> 0]
    /\ endReason = [s \in Sessions |-> "none"]
    /\ endSnap = [s \in Sessions |-> NoSnap]
    /\ resolutions = [s \in Sessions |-> 0]
    /\ camera = [s \in Sessions |-> "none"]
    /\ calls = [s \in Sessions |-> <<>>]
    /\ opens = [s \in Sessions |-> 0]
    /\ releases = [s \in Sessions |-> 0]

\* the poll loop of lines 129-141 is entered
PollerInit ==
    /\ ServerInit
    /\ CodecIdle
    /\ mainpc = "poll_loop"
    /\ ppc = "loop"
    /\ cycle = 0
    /\ connected = "none"
    /\ slave_id = FirstSlave
    /\ all_data = EmptyBatch
    /\ data = NoData
    /\ readLog = <<>>
    /\ outcome = [k \in {} |-> "none"]
    /\ todo = {}
    /\ sinkCalls = 0
    /\ cursors = 0
    /\ statements = 0
    /\ commits = 0
    /\ sleepFor = 0
    /\ dbTxn = "idle"
    /\ dbPending = {}
    /\ dbStore = {}
    /\ committed = {}
    /\ lastRecord = [n \in {} |-> 0]
    /\ partial = {}

\* the outer `except Exception` of the poll loop: log, sleep(10)
Backoff_Break ==
    /\ ppc' = "stopped"
    /\ sleepFor' = BackoffPeriod
Backoff_Retry ==
    /\ ppc' = "update"
    /\ sleepFor' = BackoffPeriod
Backoff ==
    /\ ppc' = "sleep"
    /\ sleepFor' = BackoffPeriod

\* history: the batch of this cycle is abandoned after `n` statements
Abandon(n) == partial' = (IF n > 0 THEN partial \cup {cycle} ELSE partial)

\* lines 130-132: a cycle starts, read_data is entered
PollStart ==
    /\ mainpc = "poll_loop"
    /\ UNCHANGED serverVars
    /\ UNCHANGED codecVars
    /\ UNCHANGED urlVars
    /\ UNCHANGED dashVars
    /\ logged' = logged \cup PollerEmits
    /\ ppc = "loop"
    /\ cycle < MaxCycles
    /\ cycle' = cycle + 1
    /\ ppc' = "connect"
    /\ connected' = "none"
    /\ slave_id' = FirstSlave
    /\ all_data' = EmptyBatch
    /\ data' = NoData
    /\ readLog' = <<>>
    /\ outcome' = [k \in {} |-> "none"]
    /\ todo' = {}
    /\ sinkCalls' = 0
    /\ cursors' = 0
    /\ statements' = 0
    /\ commits' = 0
    /\ sleepFor' = 0
    /\ UNCHANGED <<dbTxn, dbPending, dbStore, committed, lastRecord, partial>>

\* lines 86-89: the connection is made ("ok"), client.connect() returns
\* False and read_data returns None ("refused"), or entering the with block
\* raises ("raise")
ConnectBus(res) ==
    /\ mainpc = "poll_loop"
    /\ UNCHANGED serverVars
    /\ UNCHANGED codecVars
    /\ UNCHANGED urlVars
    /\ UNCHANGED dashVars
    /\ logged' = logged \cup PollerEmits
    /\ ppc = "connect"
    /\ connected' = res
    /\ IF res = "ok"
       THEN /\ ppc' = (IF FirstSlave <= LastSlave THEN "read" ELSE "update")
            /\ data' = (IF FirstSlave <= LastSlave THEN data
                        ELSE [isNone |-> FALSE, batch |-> all_data])
            /\ UNCHANGED sleepFor
       ELSE IF res = "refused"
       THEN /\ ppc' = "update"
            /\ data' = NoData
            /\ UNCHANGED sleepFor
       ELSE /\ Backoff
            /\ UNCHANGED data
    /\ UNCHANGED <<cycle, slave_id, all_data, readLog, outcome, todo, sinkCalls,
                   cursors, statements, commits, dbTxn, dbPending, dbStore,
                   committed, lastRecord, partial>>

\* lines 91-117: one iteration of the for loop; after the last one
\* read_data returns all_data (line 119)
ReadSlave(resp) ==
    /\ mainpc = "poll_loop"
    /\ UNCHANGED serverVars
    /\ UNCHANGED codecVars
    /\ UNCHANGED urlVars
    /\ UNCHANGED dashVars
    /\ logged' = logged \cup PollerEmits
    /\ ppc = "read"
    /\ slave_id <= LastSlave
    /\ readLog' = Append(readLog, ReadRequest(slave_id))
    /\ outcome' = [j \in (DOMAIN outcome) \cup {slave_id} |->
                      IF j = slave_id THEN Kind(resp) ELSE outcome[j]]
    /\ all_data' = StoreRecord(all_data, slave_id, resp)
    /\ slave_id' = slave_id + 1
    /\ IF slave_id + 1 > LastSlave
       THEN /\ ppc' = "update"
            /\ data' = [isNone |-> FALSE, batch |-> all_data']
       ELSE UNCHANGED <<ppc, data>>
    /\ UNCHANGED <<cycle, connected, todo, sinkCalls, cursors, statements,
                   commits, sleepFor, dbTxn, dbPending, dbStore, committed,
                   lastRecord, partial>>

\* line 133 and lines 147-148: ut.update_robots(data) is called, the cursor
\* is opened, robots_data.values() is evaluated
SinkCall ==
    /\ mainpc = "poll_loop"
    /\ UNCHANGED serverVars
    /\ UNCHANGED codecVars
    /\ UNCHANGED urlVars
    /\ UNCHANGED dashVars
    /\ logged' = logged \cup PollerEmits
    /\ ppc = "update"
    /\ sinkCalls' = sinkCalls + 1
    /\ IF dbTxn = "closed"
       THEN \* conn.cursor() raises on a closed connection
            /\ Backoff
            /\ UNCHANGED <<cursors, todo>>
       ELSE /\ cursors' = cursors + 1
            /\ IF data.isNone
               THEN \* None has no attribute values
                    /\ Backoff
                    /\ UNCHANGED todo
               ELSE /\ ppc' = "exec"
                    /\ todo' = DOMAIN data.batch
                    /\ UNCHANGED sleepFor
    /\ UNCHANGED <<cycle, connected, slave_id, all_data, data, readLog, outcome,
                   statements, commits, dbTxn, dbPending, dbStore, committed,
                   lastRecord, partial>>

\* the slot whose record the for loop of update_robots takes next: a dict
\* iterates in insertion order, read_data inserts in ascending slot order
NextSlot(s) == CHOOSE k \in s : \A j \in s : k <= j

\* lines 148-156: one cursor.execute of the batch
ExecRecord(res) ==
    /\ mainpc = "poll_loop"
    /\ UNCHANGED serverVars
    /\ UNCHANGED codecVars
    /\ UNCHANGED urlVars
    /\ UNCHANGED dashVars
    /\ logged' = logged \cup PollerEmits
    /\ ppc = "exec"
    /\ todo # {}
    /\ LET k == NextSlot(todo)
           row == Row(data.batch[k], cycle)
       IN  IF dbTxn = "aborted"
           THEN \* current transaction is aborted, commands ignored
                /\ res = "dberror"
                /\ Backoff
                /\ Abandon(statements)
                /\ UNCHANGED <<todo, statements, dbTxn, dbPending, dbStore>>
           ELSE IF res = "ok"
           THEN /\ dbPending' = Upsert(dbPending, row)
                /\ dbStore' = AfterStatement(dbStore, dbPending')
                /\ dbTxn' = "intrans"
                /\ todo' = todo \ {k}
                /\ statements' = statements + 1
                /\ UNCHANGED <<ppc, sleepFor, partial>>
           ELSE IF res = "dberror"
           THEN \* the server rejects the statement: the transaction is
                \* aborted, nothing rolls it back
                /\ dbTxn' = "aborted"
                /\ Backoff
                /\ Abandon(statements)
                /\ UNCHANGED <<todo, statements, dbPending, dbStore>>
           ELSE \* the connection to the server is lost
                /\ dbTxn' = "closed"
                /\ dbPending' = dbStore
                /\ Backoff
                /\ Abandon(statements)
                /\ UNCHANGED <<todo, statements, dbStore>>
    /\ UNCHANGED <<cycle, connected, slave_id, all_data, data, readLog, outcome,
                   sinkCalls, cursors, commits, committed, lastRecord>>

\* the record a committed batch leaves under name n: the one of the highest
\* slot carrying that name
LastOfName(batch, n) ==
    LET ks == { k \in DOMAIN batch : batch[k].name = n }
    IN  batch[CHOOSE k \in ks : \A j \in ks : j <= k]

NamesOf(batch) == { batch[k].name : k \in DOMAIN batch }

\* line 157: self.conn.commit(), then line 134: sleep(5)
CommitBatch(res) ==
    /\ mainpc = "poll_loop"
    /\ UNCHANGED serverVars
    /\ UNCHANGED codecVars
    /\ UNCHANGED urlVars
    /\ UNCHANGED dashVars
    /\ logged' = logged \cup PollerEmits
    /\ ppc = "exec"
    /\ todo = {}
    /\ commits' = commits + 1
    /\ IF dbTxn = "intrans" /\ res = "ok"
       THEN /\ dbStore' = dbPending
            /\ dbTxn' = "idle"
            /\ committed' = committed \cup {cycle}
            /\ lastRecord' =
                  [n \in (DOMAIN lastRecord) \cup NamesOf(data.batch) |->
                      IF n \in NamesOf(data.batch)
                      THEN LastOfName(data.batch, n) ELSE lastRecord[n]]
            /\ ppc' = "sleep"
            /\ sleepFor' = NormalPeriod
            /\ UNCHANGED <<dbPending, partial>>
       ELSE IF dbTxn \in {"intrans", "aborted"} /\ res = "connlost"
       THEN \* the connection is lost during the commit
            /\ dbTxn' = "closed"
            /\ dbPending' = dbStore
            /\ Backoff
            /\ Abandon(statements)
            /\ UNCHANGED <<dbStore, committed, lastRecord>>
       ELSE \* no statement ran in this call: the commit ends an aborted
            \* transaction as a rollback, or does nothing
            /\ dbTxn \in {"idle", "aborted"}
            /\ res = "ok"
            /\ dbTxn' = "idle"
            /\ dbPending' = dbStore
            /\ ppc' = "sleep"
            /\ sleepFor' = NormalPeriod
            /\ UNCHANGED <<dbStore, committed, lastRecord, partial>>
    /\ UNCHANGED <<cycle, connected, slave_id, all_data, data, readLog, outcome,
                   todo, sinkCalls, cursors, statements>>

\* the sleep of line 134 or 141 ends, the while loop iterates
SleepDone ==
    /\ mainpc = "poll_loop"
    /\ UNCHANGED serverVars
    /\ UNCHANGED codecVars
    /\ UNCHANGED urlVars
    /\ UNCHANGED dashVars
    /\ UNCHANGED logged
    /\ ppc = "sleep"
    /\ ppc' = "loop"
    /\ UNCHANGED <<cycle, connected, slave_id, all_data, data, readLog, outcome,
                   todo, sinkCalls, cursors, statements, commits, sleepFor,
                   dbTxn, dbPending, dbStore, committed, lastRecord, partial>>

\* lines 136-138: KeyboardInterrupt ends the loop and the process; the
\* server discards the transaction of the closed connection
PollInterrupt ==
    /\ mainpc = "poll_loop"
    /\ mainpc' = "exited"
    /\ UNCHANGED <<loopOwner, spc, capOpen, connOpen, viewerGone, frames,
                   endReason, endSnap, resolutions, camera, calls, opens,
                   releases>>
    /\ UNCHANGED codecVars
    /\ UNCHANGED urlVars
    /\ UNCHANGED dashVars
    /\ logged' = logged \cup PollerEmits
    /\ ppc \notin {"stopped"}
    /\ ppc' = "stopped"
    /\ dbTxn' = "closed"
    /\ dbPending' = dbStore
    /\ Abandon(IF ppc = "exec" THEN statements ELSE 0)
    /\ UNCHANGED <<cycle, connected, slave_id, all_data, data, readLog, outcome,
                   todo, sinkCalls, cursors, statements, commits, sleepFor,
                   dbStore, committed, lastRecord>>

PollerNext ==
    \/ PollStart
    \/ \E res \in {"ok", "refused", "raise"} : ConnectBus(res)
    \/ \E resp \in Responses : ReadSlave(resp)
    \/ SinkCall
    \/ \E res \in {"ok", "dberror", "connlost"} : ExecRecord(res)
    \/ \E res \in {"ok", "connlost"} : CommitBatch(res)
    \/ SleepDone
    \/ PollInterrupt

PollerSpec == PollerInit /\ [][PollerNext]_vars

\* one answer of each kind: which words a device reports has no part in
\* whether the loop goes on
LoopResponses ==
    { r \in Responses : r.kind = "resp" => r.registers \in {Block(1, 0), <<>>} }

\* the steps the poll loop takes by itself
LoopStep ==
    \/ PollStart
    \/ \E res \in {"ok", "refused", "raise"} : ConnectBus(res)
    \/ \E resp \in LoopResponses : ReadSlave(resp)
    \/ SinkCall
    \/ \E res \in {"ok", "dberror", "connlost"} : ExecRecord(res)
    \/ \E res \in {"ok", "connlost"} : CommitBatch(res)
    \/ SleepDone

LoopNext == LoopStep \/ PollInterrupt

\* the main thread keeps running, and every call into the fieldbus and
\* database libraries returns or raises
FairLoopSpec == PollerInit /\ [][LoopNext]_vars /\ WF_vars(LoopStep)


(* ------------------------- the process, as written --------------------- *)
\* stream_camera tasks that have not ended
Live == { s \in Sessions : spc[s] \notin {"absent", "closed"} }

\* the handler of session s ends (it returns or an exception leaves it) and
\* the websockets server closes the connection; the task gives up the
\* event loop's thread
EndSession(s, reason) ==
    /\ spc' = [spc EXCEPT ![s] = "closed"]
    /\ connOpen' = [connOpen EXCEPT ![s] = FALSE]
    /\ endReason' = [endReason EXCEPT ![s] = reason]
    /\ endSnap' = [endSnap EXCEPT ![s] =
                      [frames |-> frames,
                       present |-> { t \in Sessions : spc[t] # "absent" }]]
    /\ loopOwner' = NoTask

\* line 128: asyncio.run(main()) is entered and websockets.serve listens on
\* port 8765, or binding the port raises and the process ends
ServeStart(ok) ==
    /\ mainpc = "start"
    /\ mainpc' = (IF ok THEN "serving" ELSE "exited")
    /\ UNCHANGED <<loopOwner, spc, capOpen, connOpen, viewerGone, frames,
                   endReason, endSnap, resolutions, camera, calls, opens, releases>>
    /\ UNCHANGED pollerVars
    /\ UNCHANGED codecVars
    /\ UNCHANGED urlVars
    /\ UNCHANGED dashVars
    /\ UNCHANGED logged

\* the event loop accepts a viewer and creates the task of its handler;
\* viewers are numbered in their order of arrival
Accept(s) ==
    /\ mainpc = "serving"
    /\ loopOwner = NoTask
    /\ spc[s] = "absent"
    /\ \A t \in Sessions : t < s => spc[t] # "absent"
    /\ spc' = [spc EXCEPT ![s] = "accepted"]
    /\ connOpen' = [connOpen EXCEPT ![s] = TRUE]
    /\ UNCHANGED <<mainpc, loopOwner, capOpen, viewerGone, frames, endReason,
                   endSnap, resolutions, camera, calls, opens, releases>>
    /\ UNCHANGED pollerVars
    /\ UNCHANGED codecVars
    /\ UNCHANGED urlVars
    /\ UNCHANGED dashVars
    /\ UNCHANGED logged

\* line 63: the task starts and calls get_rtsp_url, a plain call that
\* keeps the event loop's thread until it returns
RunHandler(s) ==
    /\ mainpc = "serving"
    /\ loopOwner = NoTask
    /\ spc[s] = "accepted"
    /\ loopOwner' = s
    /\ IF CachedEndpoint(camera)
       THEN /\ spc' = [spc EXCEPT ![s] = "open"]
            /\ calls' = [calls EXCEPT ![s] = Append(@, "VideoCapture")]
            /\ UNCHANGED resolutions
       ELSE /\ spc' = [spc EXCEPT ![s] = "resolve"]
            /\ calls' = [calls EXCEPT ![s] = Append(@, "get_rtsp_url")]
            /\ resolutions' = [resolutions EXCEPT ![s] = @ + 1]
    /\ UNCHANGED <<mainpc, capOpen, connOpen, viewerGone, frames, endReason,
                   endSnap, camera, opens, releases>>
    /\ UNCHANGED pollerVars
    /\ UNCHANGED codecVars
    /\ UNCHANGED urlVars
    /\ UNCHANGED dashVars
    /\ UNCHANGED logged

\* lines 31-43, 63-65: get_rtsp_url returns the URI and cv2.VideoCapture is
\* called with it, or get_rtsp_url raises and the handler ends
ResolveReturn(s, cam) ==
    /\ mainpc = "serving"
    /\ loopOwner = s
    /\ spc[s] = "resolve"
    /\ camera' = [camera EXCEPT ![s] = Resolution(cam)]
    /\ IF GetRtspUrlRaises(cam)
       THEN /\ EndSession(s, "resolution_failed")
            /\ UNCHANGED calls
       ELSE /\ spc' = [spc EXCEPT ![s] = "open"]
            /\ calls' = [calls EXCEPT ![s] = Append(@, "VideoCapture")]
            /\ UNCHANGED <<loopOwner, connOpen, endReason, endSnap>>
    /\ UNCHANGED <<mainpc, capOpen, viewerGone, frames, resolutions, opens,
                   releases>>
    /\ UNCHANGED pollerVars
    /\ UNCHANGED codecVars
    /\ UNCHANGED urlVars
    /\ UNCHANGED dashVars
    /\ logged' = logged \cup SessionEmits(ResolverSecrets)

\* lines 65-69: the capture object exists, the loop is entered and
\* cap.read() is called, again a plain call
OpenReturn(s) ==
    /\ mainpc = "serving"
    /\ loopOwner = s
    /\ spc[s] = "open"
    /\ capOpen' = [capOpen EXCEPT ![s] = TRUE]
    /\ opens' = [opens EXCEPT ![s] = @ + 1]
    /\ spc' = [spc EXCEPT ![s] = "read"]
    /\ UNCHANGED <<mainpc, loopOwner, connOpen, viewerGone, frames, endReason,
                   endSnap, resolutions, camera, calls, releases>>
    /\ UNCHANGED pollerVars
    /\ UNCHANGED codecVars
    /\ UNCHANGED urlVars
    /\ UNCHANGED dashVars
    /\ logged' = logged \cup SessionEmits(ResolverSecrets \cup AuthUrlSecrets)

\* lines 69-76 and 79-80: cap.read() returns; with a frame the task encodes
\* it and awaits websocket.send, without one it breaks out of the loop,
\* releases the capture and returns
ReadReturn(s, ret) ==
    /\ mainpc = "serving"
    /\ loopOwner = s
    /\ spc[s] = "read"
    /\ IF ret
       THEN /\ frames[s] < MaxFrames
            /\ spc' = [spc EXCEPT ![s] = "send"]
            /\ loopOwner' = NoTask
            /\ UNCHANGED <<capOpen, connOpen, endReason, endSnap, releases,
                           calls>>
       ELSE /\ capOpen' = FinallyRelease(capOpen, s)
            /\ releases' = [releases EXCEPT ![s] = @ + 1]
            /\ calls' = [calls EXCEPT ![s] = Append(@, "release")]
            /\ EndSession(s, "read_failed")
    /\ UNCHANGED <<mainpc, viewerGone, frames, resolutions, camera, opens>>
    /\ UNCHANGED pollerVars
    /\ UNCHANGED codecVars
    /\ UNCHANGED urlVars
    /\ UNCHANGED dashVars
    /\ logged' = logged \cup SessionEmits(ResolverSecrets \cup AuthUrlSecrets)

\* lines 76-77 and 79-80: the send completes and the task awaits
\* asyncio.sleep(0.03), or the send raises because the viewer is gone and
\* the finally block releases the capture
SendDone(s) ==
    /\ mainpc = "serving"
    /\ loopOwner = NoTask
    /\ spc[s] = "send"
    /\ IF viewerGone[s]
       THEN /\ capOpen' = FinallyRelease(capOpen, s)
            /\ releases' = [releases EXCEPT ![s] = @ + 1]
            /\ calls' = [calls EXCEPT ![s] = Append(@, "release")]
            /\ EndSession(s, "send_failed")
            /\ UNCHANGED frames
       ELSE /\ frames' = [frames EXCEPT ![s] = @ + 1]
            /\ spc' = [spc EXCEPT ![s] = "sleep"]
            /\ UNCHANGED <<loopOwner, capOpen, connOpen, endReason, endSnap,
                           releases, calls>>
    /\ UNCHANGED <<mainpc, viewerGone, resolutions, camera, opens>>
    /\ UNCHANGED pollerVars
    /\ UNCHANGED codecVars
    /\ UNCHANGED urlVars
    /\ UNCHANGED dashVars
    /\ logged' = logged \cup SessionEmits(ResolverSecrets \cup AuthUrlSecrets)

\* lines 77, 68-69: the pacing sleep is over, the task takes the thread and
\* calls cap.read()
Wake(s) ==
    /\ mainpc = "serving"
    /\ loopOwner = NoTask
    /\ spc[s] = "sleep"
    /\ loopOwner' = s
    /\ spc' = [spc EXCEPT ![s] = "read"]
    /\ UNCHANGED <<mainpc, capOpen, connOpen, viewerGone, frames, endReason,
                   endSnap, resolutions, camera, calls, opens, releases>>
    /\ UNCHANGED pollerVars
    /\ UNCHANGED codecVars
    /\ UNCHANGED urlVars
    /\ UNCHANGED dashVars
    /\ UNCHANGED logged

\* the viewer of a live session drops its connection
ViewerLeaves(s) ==
    /\ mainpc = "serving"
    /\ s \in Live
    /\ ~viewerGone[s]
    /\ viewerGone' = [viewerGone EXCEPT ![s] = TRUE]
    /\ UNCHANGED <<mainpc, loopOwner, spc, capOpen, connOpen, frames, endReason,
                   endSnap, resolutions, camera, calls, opens, releases>>
    /\ UNCHANGED pollerVars
    /\ UNCHANGED codecVars
    /\ UNCHANGED urlVars
    /\ UNCHANGED dashVars
    /\ UNCHANGED logged

\* lines 66, 79-80: CancelledError is raised at the await of a cancelled
\* task, inside the try block, so its finally block releases the capture
ReleasedOnCancel_NoFinally(cap, s) == FALSE
ReleasedOnCancel(cap, s) == cap[s]

\* KeyboardInterrupt while asyncio.run(main()) runs: the signal is served
\* when the event loop has the thread; asyncio.run cancels the tasks, whose
\* finally blocks release their captures, and raises out of line 128, which
\* no try block encloses
ServeInterrupt ==
    /\ mainpc = "serving"
    /\ loopOwner = NoTask
    /\ mainpc' = "exited"
    /\ spc' = [s \in Sessions |-> IF s \in Live THEN "closed" ELSE spc[s]]
    /\ connOpen' = [s \in Sessions |-> FALSE]
    /\ capOpen' = [s \in Sessions |->
                     capOpen[s] /\ ~ReleasedOnCancel(capOpen, s)]
    /\ releases' = [s \in Sessions |->
                      IF ReleasedOnCancel(capOpen, s)
                      THEN releases[s] + 1 ELSE releases[s]]
    /\ calls' = [s \in Sessions |->
                   IF ReleasedOnCancel(capOpen, s)
                   THEN Append(calls[s], "release") ELSE calls[s]]
    /\ endReason' = [s \in Sessions |->
                       IF s \in Live THEN "cancelled" ELSE endReason[s]]
    /\ UNCHANGED <<loopOwner, viewerGone, frames, endSnap, resolutions, camera,
                   opens>>
    /\ UNCHANGED pollerVars
    /\ UNCHANGED codecVars
    /\ UNCHANGED urlVars
    /\ UNCHANGED dashVars
    /\ logged' = logged \cup SessionEmits(ResolverSecrets \cup AuthUrlSecrets)

\* the poll loop has not run
PollerIdle ==
    /\ ppc = "loop"
    /\ cycle = 0
    /\ connected = "none"
    /\ slave_id = FirstSlave
    /\ all_data = EmptyBatch
    /\ data = NoData
    /\ readLog = <<>>
    /\ outcome = [k \in {} |-> "none"]
    /\ todo = {}
    /\ sinkCalls = 0
    /\ cursors = 0
    /\ statements = 0
    /\ commits = 0
    /\ sleepFor = 0
    /\ dbTxn = "idle"
    /\ dbPending = {}
    /\ dbStore = {}
    /\ committed = {}
    /\ lastRecord = [n \in {} |-> 0]
    /\ partial = {}

\* the process of the __main__ block starts
ProcInit ==
    /\ ServerInit
    /\ CodecIdle
    /\ mainpc = "start"
    /\ PollerIdle

\* asyncio.run(main()) awaits a future nobody completes: it never returns,
\* it can only raise, so no step leads from line 128 to line 129
ProcNext ==
    \/ \E ok \in BOOLEAN : ServeStart(ok)
    \/ \E s \in Sessions : Accept(s)
    \/ \E s \in Sessions : RunHandler(s)
    \/ \E s \in Sessions, cam \in CameraAnswers : ResolveReturn(s, cam)
    \/ \E s \in Sessions : OpenReturn(s)
    \/ \E s \in Sessions, ret \in BOOLEAN : ReadReturn(s, ret)
    \/ \E s \in Sessions : SendDone(s)
    \/ \E s \in Sessions : Wake(s)
    \/ \E s \in Sessions : ViewerLeaves(s)
    \/ ServeInterrupt

ProcSpec == ProcInit /\ [][ProcNext]_vars

\* the main thread and the event loop keep running, and the calls into the
\* camera libraries return
ProcFairness ==
    /\ WF_vars(ServeStart(TRUE))
    /\ \A s \in Sessions :
          /\ WF_vars(RunHandler(s))
          /\ WF_vars(\E cam \in CameraAnswers : ResolveReturn(s, cam))
          /\ WF_vars(OpenReturn(s))
          /\ WF_vars(\E ret \in BOOLEAN : ReadReturn(s, ret))
          /\ WF_vars(SendDone(s))
          /\ WF_vars(Wake(s))

FairProcSpec == ProcSpec /\ ProcFairness

(* --------------------- register map, block by block -------------------- *)
\* the blocks of six words over the sampled word values
CodecBlocks == [1..RegisterCount -> 0..MaxWord]

CodecInit ==
    /\ ServerInit
    /\ PollerIdle
    /\ mainpc = "start"
    /\ logged = {}
    /\ UrlIdle
    /\ DashStart
    /\ cpc = "block"
    /\ blk \in CodecBlocks
    /\ slave_data = NoRecord
    /\ back = <<>>
    /\ crow = Row(NoRecord, 0)

\* lines 103-111: the block is decoded into slave_data
DecodeBlock ==
    /\ cpc = "block"
    /\ CanDecode(blk)
    /\ slave_data' = Decode(blk)
    /\ cpc' = "decoded"
    /\ UNCHANGED <<blk, back, crow>>
    /\ UNCHANGED <<pollerVars, serverVars, logged, urlVars, dashVars>>

\* the record is written back at the mapped offsets
EncodeRecord ==
    /\ cpc = "decoded"
    /\ back' = Encode(slave_data)
    /\ cpc' = "encoded"
    /\ UNCHANGED <<blk, slave_data, crow>>
    /\ UNCHANGED <<pollerVars, serverVars, logged, urlVars, dashVars>>

\* utils_db.py lines 149-156: the parameters of the upsert are bound
BindRecord ==
    /\ cpc = "decoded"
    /\ crow' = Row(slave_data, 0)
    /\ cpc' = "bound"
    /\ UNCHANGED <<blk, slave_data, back>>
    /\ UNCHANGED <<pollerVars, serverVars, logged, urlVars, dashVars>>

CodecNext == DecodeBlock \/ EncodeRecord \/ BindRecord

CodecSpec == CodecInit /\ [][CodecNext]_vars

(* ------------------------- add_auth_to_url alone ------------------------ *)
\* the device's URI and the configured password are given
UrlInit ==
    /\ ServerInit
    /\ PollerIdle
    /\ mainpc = "start"
    /\ logged = {}
    /\ cpc = "idle"
    /\ blk = <<>>
    /\ slave_data = NoRecord
    /\ back = <<>>
    /\ crow = Row(NoRecord, 0)
    /\ DashStart
    /\ upc = "input"
    /\ device \in DeviceUris
    /\ config_password \in Passwords
    /\ once = NoResult
    /\ twice = NoResult

\* line 65: add_auth_to_url(rtsp_url, username, password)
Rewrite ==
    /\ upc = "input"
    /\ upc' = "once"
    /\ once' = add_auth_to_url(UriText(device), Username, config_password)
    /\ UNCHANGED <<device, config_password, twice>>
    /\ UNCHANGED <<pollerVars, serverVars, codecVars, logged, dashVars>>

\* the rewrite applied to its own result with the same credentials
RewriteAgain ==
    /\ upc = "once"
    /\ ~once.raised
    /\ upc' = "twice"
    /\ twice' = add_auth_to_url(once.url, Username, config_password)
    /\ UNCHANGED <<device, config_password, once>>
    /\ UNCHANGED <<pollerVars, serverVars, codecVars, logged, dashVars>>

UrlNext == Rewrite \/ RewriteAgain

UrlSpec == UrlInit /\ [][UrlNext]_vars

(* ------------------------------ dashboard ------------------------------- *)
\* the rest of the program does not move while the dashboard is looked at
DashFrame == UNCHANGED <<pollerVars, serverVars, codecVars, logged, urlVars>>

DashInit ==
    /\ ServerInit
    /\ PollerIdle
    /\ CodecIdle
    /\ mainpc = "start"

\* a second passes
Tick ==
    /\ now < MaxClock
    /\ now' = now + 1
    /\ UNCHANGED <<dpc, storeRobots, storeCameras, cache, session, usd, seen,
                   before, changed, usdCalls>>
    /\ DashFrame

\* the poller's process commits a batch to the robots table
PollerWrites ==
    /\ storeRobots < MaxRevision
    /\ storeRobots' = storeRobots + 1
    /\ seen' = [seen EXCEPT !.robots = @ \cup {storeRobots'}]
    /\ UNCHANGED <<dpc, now, storeCameras, cache, session, usd, before, changed,
                   usdCalls>>
    /\ DashFrame

\* Main.py lines 101-104: update_session_data is entered and reads the
\* clock; the history starts with what the tables hold now
EnterUpdate(cams) ==
    /\ usdCalls < MaxCalls
    /\ usdCalls' = usdCalls + 1
    /\ dpc' = "fetch_robots"
    /\ usd' = [NoLocals EXCEPT !.current_time = now]
    /\ seen' = [robots |-> {storeRobots}, cameras |-> {cams}]
    /\ before' = session

\* Main.py lines 166-168: the button "refresh"
Refresh ==
    /\ dpc = "idle"
    /\ EnterUpdate(storeCameras)
    /\ changed' = NoChange
    /\ UNCHANGED <<now, storeRobots, storeCameras, cache, session>>
    /\ DashFrame

\* Main.py lines 339-354: the add form is submitted; ut.add_camera commits
\* the new row and update_session_data is called, or the insert raises and
\* the error is shown
add_camera_form(c, ok) ==
    /\ dpc = "idle"
    /\ session.rooms # "absent"
    /\ c \notin storeCameras
    /\ IF ok
       THEN /\ storeCameras' = storeCameras \cup {c}
            /\ EnterUpdate(storeCameras')
            /\ changed' = [kind |-> "add", camera |-> c]
       ELSE UNCHANGED <<storeCameras, dpc, usd, seen, before, changed,
                        usdCalls>>
    /\ UNCHANGED <<now, storeRobots, cache, session>>
    /\ DashFrame

\* Main.py lines 382-385: the delete button of a listed camera
camera_list(c) ==
    /\ dpc = "idle"
    /\ c \in session.cameras
    /\ storeCameras' = storeCameras \ {c}
    /\ EnterUpdate(storeCameras')
    /\ changed' = [kind |-> "delete", camera |-> c]
    /\ UNCHANGED <<now, storeRobots, cache, session>>
    /\ DashFrame

\* Main.py lines 39-47 around a fetcher f: on a miss the table is read
\* (value) and cached with the time of the read, or the read raises
\* (ok = FALSE) and the except branch of update_session_data runs; on a
\* hit the cached value is returned
Fetch(f, ok, value, field, next) ==
    /\ dpc = f
    /\ IF CacheMiss(cache[f], now)
       THEN IF ok
            THEN /\ cache' = [cache EXCEPT ![f] =
                                 [present |-> TRUE, time |-> now,
                                  value |-> value]]
                 /\ usd' = [usd EXCEPT ![field] = value]
                 /\ dpc' = next
                 /\ UNCHANGED session
            ELSE /\ session' = OnFetchError(session)
                 /\ dpc' = "failed"
                 /\ UNCHANGED <<cache, usd>>
       ELSE /\ ok
            /\ usd' = [usd EXCEPT ![field] = cache[f].value]
            /\ dpc' = next
            /\ UNCHANGED <<cache, session>>
    /\ UNCHANGED <<now, storeRobots, storeCameras, seen, before, changed,
                   usdCalls>>
    /\ DashFrame

\* Main.py line 105
fetch_robots(ok) ==
    /\ dpc = "fetch_robots"
    /\ Fetch("fetch_robots", ok, storeRobots, "robots", "fetch_cameras")

\* Main.py line 106
fetch_cameras(ok) ==
    /\ dpc = "fetch_cameras"
    /\ Fetch("fetch_cameras", ok, storeCameras, "cameras", "fetch_rooms")

\* Main.py line 107
fetch_rooms(ok) ==
    /\ dpc = "fetch_rooms"
    /\ Fetch("fetch_rooms", ok, "rooms", "rooms", "update")

\* Main.py lines 109-121: the session takes the fetched values
UpdateSession ==
    /\ dpc = "update"
    /\ session' = OnFetched(session, usd)
    /\ dpc' = "done"
    /\ UNCHANGED <<now, storeRobots, storeCameras, cache, usd, seen, before,
                   changed, usdCalls>>
    /\ DashFrame

\* update_session_data has returned; the script run ends
ScriptEnds ==
    /\ dpc \in {"done", "failed"}
    /\ dpc' = "idle"
    /\ UNCHANGED <<now, storeRobots, storeCameras, cache, session, usd, seen,
                   before, changed, usdCalls>>
    /\ DashFrame

DashNext ==
    \/ Tick
    \/ PollerWrites
    \/ Refresh
    \/ \E c \in Cameras, ok \in BOOLEAN : add_camera_form(c, ok)
    \/ \E c \in Cameras : camera_list(c)
    \/ \E ok \in BOOLEAN : fetch_robots(ok)
    \/ \E ok \in BOOLEAN : fetch_cameras(ok)
    \/ \E ok \in BOOLEAN : fetch_rooms(ok)
    \/ UpdateSession
    \/ ScriptEnds

DashSpec == DashInit /\ [][DashNext]_vars

(* ------------------- the poller and the server, each entered ------------ *)
\* the two entry points of __main__: line 128 (the server) and line 129
\* (the poll loop), each run from its own start
GatewayInit == ProcInit \/ PollerInit

GatewayNext == ProcNext \/ PollerNext

GatewaySpec == GatewayInit /\ [][GatewayNext]_vars

(* ------------------------ poll cycle properties ------------------------ *)
\* the reads of a cycle have all been issued and read_data has returned
ReadsDone == connected = "ok" /\ ppc \in {"update", "exec", "sleep"}

\* C2: in a cycle whose fieldbus connection is not established no register
\* read is issued, update_robots is not called, and the loop sleeps 10 s
C2_FailedConnectionSkipsSink ==
    (ppc = "sleep" /\ connected \in {"refused", "raise"})
        => /\ Len(readLog) = 0
           /\ sinkCalls = 0
           /\ sleepFor = BackoffPeriod

\* C3: on a live connection every slot is read, the batch holds exactly the
\* slots whose read gave a full block, and a batch that is committed put
\* one statement per record to the sink
C3_FailedSlotAloneIsAbsent ==
    ReadsDone
        => /\ DOMAIN outcome = 1..SlaveCount
           /\ DOMAIN data.batch = { k \in 1..SlaveCount : outcome[k] = "ok" }
           /\ (ppc = "sleep" /\ sleepFor = NormalPeriod
                  => statements = Cardinality(DOMAIN data.batch))

\* a cycle in which exactly one slot failed, a later slot was still read,
\* and the sink received one record for each of the other slots
C3_Witness ==
    /\ ReadsDone
    /\ ppc = "sleep"
    /\ sleepFor = NormalPeriod
    /\ \E k \in 1..(SlaveCount - 1) :
          /\ outcome[k] \in {"error", "raise", "short"}
          /\ DOMAIN data.batch = (1..SlaveCount) \ {k}
    /\ statements = SlaveCount - 1

\* C4: a cycle on a live connection whose batch is empty does not call the
\* sink: no cursor is opened and no commit is issued
C4_EmptyBatchSkipsSink ==
    (ppc = "sleep" /\ connected = "ok" /\ ~data.isNone /\ DOMAIN data.batch = {})
        => /\ sinkCalls = 0
           /\ cursors = 0
           /\ commits = 0

\* C5: the reads of a cycle are issued for slots 1, 2, ... in this order,
\* each for 6 words from address 0, and a cycle whose reads are done issued
\* exactly slave_count of them
C5_ExactlyNReadsInOrder ==
    /\ Len(readLog) <= SlaveCount
    /\ \A i \in 1..Len(readLog) :
          readLog[i] = [slave |-> i, address |-> 0, count |-> 6]
    /\ DOMAIN outcome = 1..Len(readLog)
    /\ (ReadsDone => Len(readLog) = SlaveCount)

\* all reads of a cycle were issued although none of them succeeded
C5_Witness ==
    /\ ReadsDone
    /\ Len(readLog) = SlaveCount
    /\ \A k \in 1..SlaveCount : outcome[k] # "ok"
    /\ \E j, k \in 1..SlaveCount : outcome[j] = "raise" /\ outcome[k] = "short"

\* the stored row carries the fields of record rec
RowOf(r, rec) ==
    /\ r.name = rec.name
    /\ r.is_active = (rec.is_active # 0)
    /\ r.mode = rec.mode
    /\ r.cycles_current = rec.cycles_current
    /\ r.cycles_total = rec.cycles_total
    /\ r.oee = rec.oee

\* C6: the store holds at most one row per name, and the row of a name
\* carries the fields of the record most recently committed under it
C6_OneRowPerName ==
    /\ \A r1, r2 \in dbStore : r1.name = r2.name => r1 = r2
    /\ \A r \in dbStore : r.name \in DOMAIN lastRecord
    /\ \A n \in DOMAIN lastRecord :
          \E r \in dbStore : RowOf(r, lastRecord[n])

\* the batch of the second cycle was committed over the only row the first
\* cycle had committed, and that batch itself carried the name under two
\* slots with different values
C6_Witness ==
    /\ cycle = 2
    /\ committed = {1, 2}
    /\ ppc = "sleep"
    /\ \E j, k \in DOMAIN data.batch :
          /\ j < k
          /\ data.batch[j].name = data.batch[k].name
          /\ data.batch[j].is_active # data.batch[k].is_active
          /\ \E r \in dbStore :
                /\ RowOf(r, data.batch[k])
                /\ r.by = 2
    /\ Cardinality(dbStore) = 1

\* C7: every visible row was written by a batch that was committed, a
\* batch abandoned after some of its statements leaves no row, and a batch
\* that was committed has a row for each of its records
C7_BatchAtomic ==
    /\ \A r \in dbStore : r.by \in committed /\ r.by \notin partial
    /\ committed \cap partial = {}
    /\ (ppc = "sleep" /\ cycle \in committed)
          => \A k \in DOMAIN data.batch :
                \E r \in dbStore :
                   r.name = data.batch[k].name /\ r.by = cycle

\* a batch failed after one of its statements had been executed, and a
\* commit was issued in a later cycle
C7_Witness ==
    /\ \E c \in partial : c < cycle
    /\ commits = 1
    /\ ppc = "sleep"


(* ------------------------ process properties --------------------------- *)
\* C1: in every execution in which the relay server keeps listening, a
\* first poll cycle is eventually started
C1_PollerRunsBesideServer ==
    (<>[](mainpc = "serving")) => <>(cycle >= 1)

\* session s is inside a plain call that can take arbitrarily long
Stalled(s) == spc[s] \in {"resolve", "read"}

\* session t waits only for the event loop to run it
Ready(t) == spc[t] \in {"accepted", "send", "sleep"}

\* C8: when the frame read of one session fails, the step that ends it
\* leaves every other session's position, capture, connection and frame
\* count as they were, and leaves the event loop free to run them
C8_EndOfStreamIsolated ==
    [][\A s \in Sessions :
          (spc[s] = "read" /\ spc'[s] = "closed")
             => /\ \A t \in Sessions \ {s} :
                      /\ spc'[t] = spc[t]
                      /\ capOpen'[t] = capOpen[t]
                      /\ connOpen'[t] = connOpen[t]
                      /\ frames'[t] = frames[t]
                /\ loopOwner' = NoTask]_vars

\* one session ended on a failed read while another one had its capture
\* open, and that other session has received a frame since
C8_Witness ==
    \E s, t \in Sessions :
       /\ s # t
       /\ endReason[s] = "read_failed"
       /\ t \in endSnap[s].present
       /\ spc[t] \in {"read", "send", "sleep"}
       /\ capOpen[t]
       /\ connOpen[t]
       /\ frames[t] > endSnap[s].frames[t]

\* C9: a session inside a stalling frame read or endpoint resolution keeps
\* neither another session that is ready to go on from running nor the
\* server from accepting a viewer
C9_SessionsDoNotBlockEachOther ==
    \A s \in Sessions :
       Stalled(s)
          => /\ \A t \in Sessions \ {s} : Ready(t) => loopOwner \in {NoTask, t}
             /\ loopOwner = NoTask

\* C10: the step in which a session's frame read fails releases its
\* capture, closes its connection and leaves the server listening with the
\* event loop free to accept; an ended session stays ended and is sent no
\* further frame
C10_ReadFailureEndsSessionOnly ==
    [][\A s \in Sessions :
          /\ (spc[s] = "read" /\ spc'[s] # "read" /\ spc'[s] # "send")
                => /\ spc'[s] = "closed"
                   /\ ~capOpen'[s]
                   /\ ~connOpen'[s]
                   /\ mainpc' = "serving"
                   /\ loopOwner' = NoTask
          /\ (spc[s] = "closed")
                => /\ spc'[s] = "closed"
                   /\ frames'[s] = frames[s]
                   /\ ~capOpen'[s]
                   /\ ~connOpen'[s]]_vars

\* a session that had sent a frame ended on a failed read, and a viewer
\* that was not connected at that moment has been accepted since
C10_Witness ==
    \E s, t \in Sessions :
       /\ endReason[s] = "read_failed"
       /\ frames[s] >= 1
       /\ ~capOpen[s]
       /\ ~connOpen[s]
       /\ mainpc = "serving"
       /\ t \notin endSnap[s].present
       /\ spc[t] # "absent"


\* C11: a session whose endpoint resolution failed (the profile query
\* failed, profile 8 does not exist, or the stream-URI request failed)
\* never constructs a capture and is never sent a frame
C11_UnresolvedNeverDecoded ==
    \A s \in Sessions :
       camera[s] \in {"profiles_failed", "no_profile", "uri_failed"}
          => /\ opens[s] = 0
             /\ ~capOpen[s]
             /\ frames[s] = 0
             /\ \A i \in 1..Len(calls[s]) : calls[s][i] # "VideoCapture"
             /\ spc[s] = "closed"

\* the camera of one session listed fewer than nine profiles and the
\* session ended, while another session resolved and was sent a frame
C11_Witness ==
    \E s, t \in Sessions :
       /\ camera[s] = "no_profile"
       /\ endReason[s] = "resolution_failed"
       /\ camera[t] = "ok"
       /\ frames[t] >= 1


\* update_robots raised in this cycle on a batch (not on None)
Rejected ==
    /\ ppc = "sleep"
    /\ sleepFor = BackoffPeriod
    /\ sinkCalls >= 1
    /\ ~data.isNone

\* C12: a step in which update_robots raises leads to the sleep, not out
\* of the loop; update_robots is called at most once per cycle, and what it
\* is handed is what read_data built from the reads of that same cycle, so
\* a rejected batch is never handed over again
C12_RejectedBatchNotResubmitted ==
    [][/\ (ppc \in {"update", "exec"} /\ sleepFor' = BackoffPeriod)
             => ppc' = "sleep"
       /\ (sinkCalls' # sinkCalls /\ sinkCalls' # 0)
             => /\ ppc = "update"
                /\ sinkCalls = 0
                /\ (~data.isNone
                      => /\ connected = "ok"
                         /\ Len(readLog) = SlaveCount
                         /\ data.batch = all_data)
       /\ Rejected
             => /\ ppc' \in {"sleep", "loop", "stopped"}
                /\ sinkCalls' = sinkCalls]_vars

\* the first cycle's batch was rejected after one of its statements, and
\* the second cycle handed a batch of its own reads to the sink
C12_Witness ==
    /\ cycle = 2
    /\ 1 \in partial
    /\ ppc = "exec"
    /\ sinkCalls = 1
    /\ DOMAIN data.batch # {}
    /\ Len(readLog) = SlaveCount


\* C13: the poll loop is left only by a keyboard interrupt, and unless it
\* is interrupted every cycle is followed by another one (up to the number
\* of cycles explored), whatever failed in it
C13_PollLoopRunsForever ==
    /\ [](ppc = "stopped" => mainpc = "exited")
    /\ \A c \in 0..(MaxCycles - 1) :
          (cycle = c) ~> (cycle = c + 1 \/ mainpc = "exited")

\* the loop started a second cycle after a cycle in which the database
\* rejected a statement of the batch
C13_Witness ==
    /\ cycle = 2
    /\ ppc = "connect"
    /\ mainpc = "poll_loop"
    /\ dbTxn = "aborted"


\* C14: a block of six words decoded through the register map and written
\* back field by field at the mapped offsets is the block again
C14_DecodeEncodeRoundTrip ==
    cpc = "encoded" => back = blk

\* a block whose is_active word is neither 0 nor 1 has gone the round
\* trip
C14_Witness ==
    /\ cpc = "encoded"
    /\ blk[2] > 1
    /\ blk[1] # blk[6]
    /\ back = blk

\* the integer a Python bool compares equal to
PyBool(b) == IF b THEN 1 ELSE 0

Secrets == {"password", "auth_url"}

ExpectedAuthority ==
    Username \o <<":">> \o config_password \o <<"@">> \o Lower(device.host)
        \o (IF device.port = << >> THEN << >> ELSE <<":">> \o device.port)

C16_RewriteKeepsUriAndIsIdempotent ==
    /\ upc \in {"once", "twice"} =>
           /\ ~once.raised
           /\ urlparse(once.url).scheme = Lower(device.scheme)
           /\ urlparse(once.url).netloc = ExpectedAuthority
           /\ urlparse(once.url).path = device.path
           /\ urlparse(once.url).query = device.query
           /\ urlparse(once.url).fragment = device.fragment
    /\ upc = "twice" => ~twice.raised /\ twice.url = once.url

(* C17: every viewer session whose handler ran and ended made exactly one
   endpoint resolution and then opened exactly one capture of its own. *)
Started(s) == calls[s] # << >>

C17_OneResolutionOneHandle ==
    \A s \in Sessions :
       (Started(s) /\ spc[s] = "closed")
          => /\ resolutions[s] = 1
             /\ opens[s] = 1
             /\ Len(calls[s]) >= 2
             /\ calls[s][1] = "get_rtsp_url"
             /\ calls[s][2] = "VideoCapture"

\* the calls of a handler, in the order of lines 63, 65 and 80
HandlerCalls == <<"get_rtsp_url", "VideoCapture", "release">>

(* C17, amended: every session whose handler ran made exactly one endpoint
   resolution of its own, before anything else; it opened one capture
   afterwards if the resolution succeeded and none if it failed, and no
   session took over the endpoint or the capture of another session, so the
   resolutions are as many as the sessions started. *)
C17_OneResolutionThenItsHandle ==
    /\ \A s \in Sessions :
          /\ resolutions[s] = (IF Started(s) THEN 1 ELSE 0)
          /\ calls[s] = SubSeq(HandlerCalls, 1, Len(calls[s]))
          /\ opens[s] <= 1
          /\ opens[s] = 1 => camera[s] = "ok" /\ Len(calls[s]) >= 2
          /\ (camera[s] = "ok" /\ spc[s] \notin {"resolve", "open"})
                => opens[s] = 1
          /\ camera[s] \in {"profiles_failed", "no_profile", "uri_failed"}
                => opens[s] = 0
    /\ Cardinality({ s \in Sessions : resolutions[s] = 1 })
          = Cardinality({ s \in Sessions : Started(s) })

\* two sessions have run, each resolved the endpoint and opened a capture
C17_Witness ==
    \E s, t \in Sessions :
       /\ s # t
       /\ resolutions[s] = 1 /\ opens[s] = 1
       /\ resolutions[t] = 1 /\ opens[t] = 1
       /\ spc[t] = "closed"

(* C18: after every cycle in which the fieldbus connection was made, the
   poller sleeps the normal 5 s, whatever the reads and the persistence
   call did; it sleeps the extended 10 s only after a cycle whose
   connection failed. *)
C18_ExtendedWaitOnlyAfterConnectionFailure ==
    ppc = "sleep" =>
        /\ connected = "ok" => sleepFor = NormalPeriod
        /\ sleepFor = BackoffPeriod => connected \in {"refused", "raise"}

(* C20: a persistence failure is recoverable: no cycle leaves the shared
   connection inside an open or an aborted transaction, so the batch of a
   later cycle never meets a transaction that a failed statement of an
   earlier batch aborted. *)
C20_FailedBatchLeavesConnectionUsable ==
    /\ ppc = "sleep" => dbTxn \notin {"intrans", "aborted"}
    /\ (ppc = "exec" /\ todo # {} /\ cycle > 1 /\ statements = 0)
          => dbTxn # "aborted"

(* C21: every capture a viewer session opened is released exactly once,
   however the session ends (a failed read, a failed send, cancellation
   during the send or the pacing sleep), it is not released while the
   session runs, and the open captures are never more than the live
   sessions. *)
C21_HandleReleasedExactlyOnce ==
    /\ \A s \in Sessions :
          /\ releases[s] <= opens[s]
          /\ capOpen[s] <=> (opens[s] = 1 /\ releases[s] = 0)
          /\ capOpen[s] => s \in Live
          /\ spc[s] = "closed" => releases[s] = opens[s]
    /\ Cardinality({ s \in Sessions : capOpen[s] }) <= Cardinality(Live)

\* one session was cancelled while it held a capture and another ended on
\* a failed read or a failed send; each released its capture once
C21_Witness ==
    \E s, t \in Sessions :
       /\ endReason[s] = "cancelled"
       /\ opens[s] = 1 /\ releases[s] = 1
       /\ endReason[t] \in {"read_failed", "send_failed"}
       /\ opens[t] = 1 /\ releases[t] = 1

(* C22: when update_session_data has returned with data_valid true, the
   robots and the cameras of the session are what the tables held at some
   moment since the call started and the rooms have been read, and after a
   camera was added or deleted the session's camera list shows it. *)
C22_ValidSessionIsFresh ==
    (dpc = "done" /\ session.data_valid) =>
        /\ session.last_update = usd.current_time
        /\ session.robots \in seen.robots
        /\ session.cameras \in seen.cameras
        /\ session.rooms = "rooms"
        /\ changed.kind = "add" => changed.camera \in session.cameras
        /\ changed.kind = "delete" => changed.camera \notin session.cameras

(* C23: when a fetch inside update_session_data fails, the call ends in its
   except branch without raising: data_valid is false, one message has been
   appended to log_messages, and last_update, robots, cameras, rooms and
   filtered_robots are what they were when the call started. *)
C23_FailedUpdateKeepsSession ==
    dpc = "failed" =>
        /\ ~session.data_valid
        /\ session.log_messages = Append(before.log_messages, "error")
        /\ session.last_update = before.last_update
        /\ session.robots = before.robots
        /\ session.cameras = before.cameras
        /\ session.rooms = before.rooms
        /\ session.filtered_robots = before.filtered_robots

\* a session that held valid data calls update_session_data again; the
\* robots are fetched and a later fetch fails
C23_Witness ==
    /\ dpc = "failed"
    /\ before.data_valid
    /\ before.last_update # NoValue
    /\ before.robots # NoValue
    /\ usd.robots # NoValue

====
